---- MODULE Spec2Model ----
(***************************************************************************)
(* Model of reddit_persona.py: RedditPersonaGenerator (extract_user_info,  *)
(* analyze_persona and its helpers, generate_persona_file) and main.       *)
(*                                                                         *)
(* Text is a sequence of one-character strings, so that lower(), split(),  *)
(* the `in` substring test and the \b...\b regular expression are computed *)
(* on characters.  A Python dict (insertion ordered) is a sequence of      *)
(* [k, v] records.  An epoch timestamp is a number of hours; a datetime is *)
(* [day, hour]; a '%Y-%m-%d' string is represented by its day number.      *)
(***************************************************************************)
EXTENDS Integers, Sequences, FiniteSets, TLC

VARIABLES pc, username, api_comments, api_posts, fetching, user_info,
          persona, i, hour, file, stdout, outcome

vars == <<pc, username, api_comments, api_posts, fetching, user_info,
          persona, i, hour, file, stdout, outcome>>

(***************************************************************************)
(* Bounds of the model.                                                    *)
(***************************************************************************)
MaxComments == 3
MaxPosts == 3
MaxCalls == 3

(***************************************************************************)
(* Program constants.                                                      *)
(***************************************************************************)
CommentLimit == 100
PostLimit == 50
TopN == 5
InterestCitations == 3
TraitCitations == 2

None == [none |-> TRUE]
IsNone(x) == "none" \in DOMAIN x

Min(a, b) == IF a < b THEN a ELSE b

(***************************************************************************)
(* Strings.                                                                *)
(***************************************************************************)
UpperChars == <<"A", "B", "C", "D", "E", "F", "G", "H", "I", "J", "K", "L", "M",
                "N", "O", "P", "Q", "R", "S", "T", "U", "V", "W", "X", "Y", "Z">>
LowerChars == <<"a", "b", "c", "d", "e", "f", "g", "h", "i", "j", "k", "l", "m",
                "n", "o", "p", "q", "r", "s", "t", "u", "v", "w", "x", "y", "z">>
DigitChars == {"0", "1", "2", "3", "4", "5", "6", "7", "8", "9"}
Whitespace == {" ", "\t", "\n", "\r"}

\* str.lower(), one character
LowerChar(c) ==
    IF \E n \in 1..Len(UpperChars) : UpperChars[n] = c
    THEN LowerChars[CHOOSE n \in 1..Len(UpperChars) : UpperChars[n] = c]
    ELSE c

\* str.lower()
Lower(text) == [n \in 1..Len(text) |-> LowerChar(text[n])]

\* word occurs in text at offset p (0-based)
MatchAt(text, word, p) ==
    /\ p + Len(word) <= Len(text)
    /\ \A j \in 1..Len(word) : text[p + j] = word[j]

\* Python's `word in text`
Contains(text, word) == \E p \in 0..Len(text) : MatchAt(text, word, p)

\* any(w in text for w in words)
AnyIn(text, words) == \E n \in 1..Len(words) : Contains(text, words[n])

\* len(text.split()): the number of maximal runs of non-whitespace
WordCount(text) ==
    Cardinality({n \in 1..Len(text) :
        /\ text[n] \notin Whitespace
        /\ (n = 1 \/ text[n - 1] \in Whitespace)})

\* the regular expression class \w
IsWordChar(c) ==
    \/ \E n \in 1..Len(LowerChars) : LowerChars[n] = c \/ UpperChars[n] = c
    \/ c \in DigitChars
    \/ c = "_"

\* re.search(r'\b(w1|w2|...)\b', text), every alternative beginning and
\* ending with a \w character
SearchWholeWord(text, words) ==
    \E n \in 1..Len(words) : \E p \in 0..Len(text) :
        /\ MatchAt(text, words[n], p)
        /\ (p = 0 \/ ~IsWordChar(text[p]))
        /\ (p + Len(words[n]) = Len(text)
              \/ ~IsWordChar(text[p + Len(words[n]) + 1]))

\* str.strip(chars)
Strip(s, chars) ==
    LET keep == {n \in 1..Len(s) : s[n] \notin chars}
    IN  IF keep = {} THEN <<>>
        ELSE SubSeq(s, CHOOSE n \in keep : \A m \in keep : n <= m,
                       CHOOSE n \in keep : \A m \in keep : n >= m)

\* s.split(sep)[-1]: what follows the last separator of a left-to-right scan
RECURSIVE SplitLast(_, _)
SplitLast(s, sep) ==
    IF Contains(s, sep)
    THEN LET p == CHOOSE q \in 0..Len(s) :
                    /\ MatchAt(s, sep, q)
                    /\ \A r \in 0..Len(s) : MatchAt(s, sep, r) => q <= r
         IN  SplitLast(SubSeq(s, p + Len(sep) + 1, Len(s)), sep)
    ELSE s

(***************************************************************************)
(* datetime.                                                               *)
(***************************************************************************)
\* datetime.datetime.fromtimestamp(t), t in hours since the epoch
FromTimestamp(t) == [day |-> t \div 24, hour |-> t % 24]

\* dt.strftime('%Y-%m-%d'): the date, without the time of day
Strftime(dt) == dt.day

\* datetime.datetime.strptime(s, '%Y-%m-%d'): midnight of that date
Strptime(s) == [day |-> s, hour |-> 0]

(***************************************************************************)
(* dict, defaultdict(list), defaultdict(int).                              *)
(***************************************************************************)
Keys(d) == {d[n].k : n \in 1..Len(d)}
HasKey(d, key) == \E n \in 1..Len(d) : d[n].k = key
Index(d, key) == CHOOSE n \in 1..Len(d) : d[n].k = key
Get(d, key, default) == IF HasKey(d, key) THEN d[Index(d, key)].v ELSE default

\* d[key] on a defaultdict: a missing key is inserted with the default
Touch(d, key, default) ==
    IF HasKey(d, key) THEN d ELSE Append(d, [k |-> key, v |-> default])

\* variant: the citation is put in front of the list
DictAppendFront(d, key, x) ==
    LET t == Touch(d, key, <<>>)
    IN  [t EXCEPT ![Index(t, key)].v = <<x>> \o @]

\* d[key].append(x) on a defaultdict(list)
DictAppend(d, key, x) ==
    LET t == Touch(d, key, <<>>)
    IN  [t EXCEPT ![Index(t, key)].v = Append(@, x)]

\* d[key] += n on a defaultdict(int)
DictAdd(d, key, n) ==
    LET t == Touch(d, key, 0)
    IN  [t EXCEPT ![Index(t, key)].v = @ + n]

\* sum(d.values())
RECURSIVE SumValues(_)
SumValues(d) == IF d = <<>> THEN 0 ELSE Head(d).v + SumValues(Tail(d))

Reverse(s) == [n \in 1..Len(s) |-> s[Len(s) + 1 - n]]

\* one step of a stable ascending sort: x goes after every element whose
\* key is not greater
RECURSIVE InsertAsc(_, _)
InsertAsc(s, x) ==
    IF s = <<>> THEN <<x>>
    ELSE IF x.key < Head(s).key THEN <<x>> \o s
    ELSE <<Head(s)>> \o InsertAsc(Tail(s), x)

RECURSIVE SortAsc(_)
SortAsc(s) ==
    IF s = <<>> THEN <<>>
    ELSE InsertAsc(SortAsc(SubSeq(s, 1, Len(s) - 1)), s[Len(s)])

\* variant: ascending sort then reverse, which turns ties around
SortedReverseUnstable(s) == Reverse(SortAsc(s))

\* sorted(items, key=..., reverse=True) on items decorated with their key:
\* reverse, stable ascending sort, reverse
SortedReverse(s) == Reverse(SortAsc(Reverse(s)))

(***************************************************************************)
(* Keyword tables of _analyze_comment and _analyze_post.                   *)
(***************************************************************************)
ProgrammingWords ==
    << <<"p", "y", "t", "h", "o", "n">>,
       <<"j", "a", "v", "a", "s", "c", "r", "i", "p", "t">>,
       <<"j", "a", "v", "a">>,
       <<"c", "+", "+">> >>
GamingWords ==
    << <<"g", "a", "m", "e">>,
       <<"g", "a", "m", "i", "n", "g">>,
       <<"p", "l", "a", "y", "s", "t", "a", "t", "i", "o", "n">>,
       <<"x", "b", "o", "x">> >>
MovieWords ==
    << <<"m", "o", "v", "i", "e">>,
       <<"f", "i", "l", "m">>,
       <<"n", "e", "t", "f", "l", "i", "x">>,
       <<"h", "b", "o">> >>
OpinionatedWords ==
    << <<"i", " ", "t", "h", "i", "n", "k">>,
       <<"i", "n", " ", "m", "y", " ", "o", "p", "i", "n", "i", "o", "n">> >>
PoliteWords ==
    << <<"t", "h", "a", "n", "k", "s">>,
       <<"t", "h", "a", "n", "k", " ", "y", "o", "u">>,
       <<"a", "p", "p", "r", "e", "c", "i", "a", "t", "e">> >>
HelpWords ==
    << <<"h", "e", "l", "p">>,
       <<"a", "d", "v", "i", "c", "e">>,
       <<"s", "u", "g", "g", "e", "s", "t", "i", "o", "n">> >>
DiscussionWords ==
    << <<"d", "i", "s", "c", "u", "s", "s", "i", "o", "n">>,
       <<"d", "e", "b", "a", "t", "e">>,
       <<"o", "p", "i", "n", "i", "o", "n">> >>
SelfReferenceWords ==
    << <<"i", "'", "m">>,
       <<"i", " ", "a", "m">>,
       <<"m", "e">>,
       <<"m", "y">> >>
QuestionMark == <<"?">>
ExclamationMark == <<"!">>

(***************************************************************************)
(* The classifier and the aggregator.                                      *)
(***************************************************************************)
\* if cond: d[key].append(x)
AppendIf(cond, d, key, x) == IF cond THEN DictAppend(d, key, x) ELSE d

\* if cond: d[key] += 1
IncrementIf(cond, d, key) == IF cond THEN DictAdd(d, key, 1) ELSE d

\* text = comment['body'].lower()
CommentText(comment) == Lower(comment.body)

\* text = (post['title'] + ' ' + post.get('selftext', '')).lower()
PostText(post) == Lower(post.title \o <<" ">> \o post.selftext)

\* _analyze_comment, "Detect interests"
CommentInterests(text, permalink, interests) ==
    LET a == AppendIf(AnyIn(text, ProgrammingWords), interests, "programming", permalink)
        b == AppendIf(AnyIn(text, GamingWords), a, "gaming", permalink)
    IN  AppendIf(AnyIn(text, MovieWords), b, "movies", permalink)

\* _analyze_comment, "Detect personality traits"
CommentTraits(text, permalink, traits) ==
    LET a == AppendIf(AnyIn(text, OpinionatedWords), traits, "opinionated", permalink)
        b == AppendIf(Contains(text, QuestionMark), a, "inquisitive", permalink)
    IN  AppendIf(AnyIn(text, PoliteWords), b, "polite", permalink)

\* _analyze_comment, "Analyze language style"
CommentLanguageStyle(text, style) ==
    LET a == DictAdd(style, "comment_length", WordCount(text))
        b == IncrementIf(Contains(text, ExclamationMark), a, "exclamation_use")
    IN  IncrementIf(SearchWholeWord(text, SelfReferenceWords), b, "self_reference")

\* _analyze_comment(comment, persona)
AnalyzeComment(comment, p) ==
    LET text == CommentText(comment)
    IN  [p EXCEPT
            !.interests = CommentInterests(text, comment.permalink, @),
            !.personality_traits = CommentTraits(text, comment.permalink, @),
            !.language_style = CommentLanguageStyle(text, @)]

\* _analyze_post, "Detect interests from posts"
PostInterests(text, permalink, interests) ==
    LET a == AppendIf(AnyIn(text, HelpWords), interests, "help_seeking", permalink)
    IN  AppendIf(AnyIn(text, DiscussionWords), a, "discussions", permalink)

\* variant: the three comment rules applied to the post's text
PostTraitsAllRules(post, traits) ==
    CommentTraits(PostText(post), post.permalink, traits)

\* _analyze_post: the only trait rule is '?' in post['title']
PostTraits(post, traits) ==
    AppendIf(Contains(post.title, QuestionMark), traits, "inquisitive", post.permalink)

\* variant: posts are counted like comments
PostLanguageStyleCounted(text, style) == CommentLanguageStyle(text, style)

\* _analyze_post: no language-style counter is touched
PostLanguageStyle(text, style) == style

\* _analyze_post(post, persona)
AnalyzePost(post, p) ==
    LET text == PostText(post)
    IN  [p EXCEPT
            !.interests = PostInterests(text, post.permalink, @),
            !.personality_traits = PostTraits(post, @),
            !.language_style = PostLanguageStyle(text, @)]

\* variant: noon still counts as morning
BucketInclusiveNoon(h) ==
    IF 5 <= h /\ h <= 12 THEN "morning"
    ELSE IF 12 <= h /\ h < 17 THEN "afternoon"
    ELSE IF 17 <= h /\ h < 22 THEN "evening"
    ELSE "night"

\* variant: the morning test has no lower bound
BucketNoLowerBound(h) ==
    IF h < 12 THEN "morning"
    ELSE IF 12 <= h /\ h < 17 THEN "afternoon"
    ELSE IF 17 <= h /\ h < 22 THEN "evening"
    ELSE "night"

\* the if/elif chain of _analyze_activity_time
Bucket(h) ==
    IF 5 <= h /\ h < 12 THEN "morning"
    ELSE IF 12 <= h /\ h < 17 THEN "afternoon"
    ELSE IF 17 <= h /\ h < 22 THEN "evening"
    ELSE "night"

\* persona['activity_patterns'][bucket] += 1
CountActivity(h, p) ==
    [p EXCEPT !.activity_patterns = DictAdd(@, Bucket(h), 1)]

\* dt = datetime.datetime.strptime(timestamp, '%Y-%m-%d'); hour = dt.hour
ParsedHour(timestamp) == Strptime(timestamp).hour

\* _analyze_activity_time(timestamp, persona)
AnalyzeActivityTime(timestamp, p) == CountActivity(ParsedHour(timestamp), p)

\* variant: the count is set on first sight and never incremented
CountSubredditOnce(item, p) ==
    [p EXCEPT !.frequent_subreddits = Touch(@, item.subreddit, 1)]

\* persona['frequent_subreddits'][item['subreddit']] += 1
CountSubreddit(item, p) ==
    [p EXCEPT !.frequent_subreddits = DictAdd(@, item.subreddit, 1)]

\* sorted(persona['interests'].items(), key=lambda x: len(x[1]), reverse=True)[:5]
TopInterests(interests) ==
    LET decorated == [n \in 1..Len(interests) |->
                        [k |-> interests[n].k, v |-> interests[n].v,
                         key |-> Len(interests[n].v)]]
        sorted == SortedReverse(decorated)
    IN  [n \in 1..Min(TopN, Len(sorted)) |-> [k |-> sorted[n].k, v |-> sorted[n].v]]

\* sorted(persona['frequent_subreddits'].items(), key=lambda x: x[1], reverse=True)[:5]
TopSubreddits(subreddits) ==
    LET decorated == [n \in 1..Len(subreddits) |->
                        [k |-> subreddits[n].k, v |-> subreddits[n].v,
                         key |-> subreddits[n].v]]
        sorted == SortedReverse(decorated)
    IN  [n \in 1..Min(TopN, Len(sorted)) |-> [k |-> sorted[n].k, v |-> sorted[n].v]]

\* _calculate_account_age(created_date), with datetime.now() = now
CalculateAccountAge(created_date, now) ==
    LET days == FromTimestamp(now).day - Strptime(created_date).day
    IN  [years |-> days \div 365, months |-> (days % 365) \div 30]

\* the persona dict built at the top of analyze_persona
NewPersona(info, now) ==
    [basic_info |-> [Username |-> info.username,
                     AccountAge |-> CalculateAccountAge(info.created_utc, now),
                     CommentKarma |-> info.comment_karma,
                     PostKarma |-> info.link_karma,
                     PremiumMember |-> info.is_gold],
     interests |-> <<>>,
     personality_traits |-> <<>>,
     frequent_subreddits |-> <<>>,
     activity_patterns |-> <<>>,
     language_style |-> <<>>,
     top_interests |-> <<>>,
     top_subreddits |-> <<>>]

(***************************************************************************)
(* generate_persona_file.  The file is a sequence of lines; a section is   *)
(* [lines, raised], raised when a ZeroDivisionError ends the writing.      *)
(***************************************************************************)
\* f"{x:.1f}" for x = num / (10 * den), in tenths: round(num / den), ties to even
RoundTenths(num, den) ==
    LET q == num \div den
        r == num % den
    IN  IF 2 * r < den THEN q
        ELSE IF 2 * r > den THEN q + 1
        ELSE IF q % 2 = 0 THEN q ELSE q + 1

\* str.capitalize() on the category names
Capitalize(name) ==
    CASE name = "programming" -> "Programming"
      [] name = "gaming" -> "Gaming"
      [] name = "movies" -> "Movies"
      [] name = "help_seeking" -> "Help_seeking"
      [] name = "discussions" -> "Discussions"
      [] name = "opinionated" -> "Opinionated"
      [] name = "inquisitive" -> "Inquisitive"
      [] name = "polite" -> "Polite"
      [] OTHER -> name

\* for url in citations[:limit]: f.write(f"  - Citation: {url}\n")
CitationLines(citations, limit) ==
    [n \in 1..Min(limit, Len(citations)) |-> [kind |-> "citation", url |-> citations[n]]]

\* for name, citations in entries: the category line, then its citations
RECURSIVE CategoryLines(_, _, _)
CategoryLines(entries, kind, limit) ==
    IF entries = <<>> THEN <<>>
    ELSE <<[kind |-> kind, name |-> Capitalize(Head(entries).k),
            n |-> Len(Head(entries).v)]>>
         \o CitationLines(Head(entries).v, limit)
         \o CategoryLines(Tail(entries), kind, limit)

BasicInfoLines(p) ==
    <<[kind |-> "header", name |-> "BASIC INFORMATION"],
      [kind |-> "basic", name |-> "Username", value |-> p.basic_info.Username],
      [kind |-> "basic", name |-> "Account Age", value |-> p.basic_info.AccountAge],
      [kind |-> "basic", name |-> "Comment Karma", value |-> p.basic_info.CommentKarma],
      [kind |-> "basic", name |-> "Post Karma", value |-> p.basic_info.PostKarma],
      [kind |-> "basic", name |-> "Premium Member", value |-> p.basic_info.PremiumMember]>>

TopInterestLines(p) ==
    <<[kind |-> "header", name |-> "TOP INTERESTS"]>>
    \o CategoryLines(p.top_interests, "interest", InterestCitations)

TraitLines(p) ==
    <<[kind |-> "header", name |-> "PERSONALITY TRAITS"]>>
    \o CategoryLines(p.personality_traits, "trait", TraitCitations)

\* variant: one percentage per fixed bucket, whether or not it was hit
ActivityLinesAllBuckets(p) ==
    LET total == SumValues(p.activity_patterns)
        names == <<"morning", "afternoon", "evening", "night">>
    IN  IF total = 0
        THEN [lines |-> <<[kind |-> "header", name |-> "ACTIVITY PATTERNS"]>>,
              raised |-> TRUE]
        ELSE [lines |-> <<[kind |-> "header", name |-> "ACTIVITY PATTERNS"]>>
                        \o [n \in 1..4 |->
                              [kind |-> "activity", name |-> names[n],
                               tenths |-> RoundTenths(
                                   Get(p.activity_patterns, names[n], 0) * 1000, total)]],
              raised |-> FALSE]

\* total_activity = sum(...); for time, count in ...items():
\*     percentage = (count / total_activity) * 100
ActivityLines(p) ==
    LET total == SumValues(p.activity_patterns)
        d == p.activity_patterns
    IN  IF d # <<>> /\ total = 0
        THEN [lines |-> <<[kind |-> "header", name |-> "ACTIVITY PATTERNS"]>>,
              raised |-> TRUE]
        ELSE [lines |-> <<[kind |-> "header", name |-> "ACTIVITY PATTERNS"]>>
                        \o [n \in 1..Len(d) |->
                              [kind |-> "activity", name |-> d[n].k,
                               tenths |-> RoundTenths(d[n].v * 1000, total)]],
              raised |-> FALSE]

\* the language-style block: the three reads of the defaultdict insert the
\* keys they miss; the average divides by
\* len(persona['personality_traits']) + len(persona['interests'])
LanguageLines(p) ==
    LET s1 == Touch(p.language_style, "comment_length", 0)
        s2 == Touch(s1, "exclamation_use", 0)
        s3 == Touch(s2, "self_reference", 0)
        length == Get(s1, "comment_length", 0)
        categories == Len(p.personality_traits) + Len(p.interests)
        head == <<[kind |-> "header", name |-> "LANGUAGE STYLE"]>>
    IN  IF length > 0 /\ categories = 0
        THEN [lines |-> head, raised |-> TRUE, style |-> s1]
        ELSE [lines |-> head
                \o (IF length > 0
                    THEN <<[kind |-> "avg_length",
                            tenths |-> RoundTenths(length * 10, categories)]>>
                    ELSE <<>>)
                \o (IF Get(s3, "exclamation_use", 0) > 0
                    THEN <<[kind |-> "exclamation"]>> ELSE <<>>)
                \o (IF Get(s3, "self_reference", 0) > 0
                    THEN <<[kind |-> "self_reference"]>> ELSE <<>>),
              raised |-> FALSE, style |-> s3]

SubredditLines(p) ==
    <<[kind |-> "header", name |-> "FREQUENTLY VISITED SUBREDDITS"]>>
    \o [n \in 1..Len(p.top_subreddits) |->
          [kind |-> "subreddit", name |-> p.top_subreddits[n].k,
           n |-> p.top_subreddits[n].v]]
    \o <<[kind |-> "end"]>>

\* generate_persona_file(persona, filename): what is written before the
\* first exception, whether one was raised, and the persona afterwards
GeneratePersonaFile(p) ==
    LET first == <<[kind |-> "banner"]>> \o BasicInfoLines(p)
                 \o TopInterestLines(p) \o TraitLines(p)
        act == ActivityLines(p)
        lang == LanguageLines(p)
    IN  IF act.raised
        THEN [lines |-> first \o act.lines, raised |-> TRUE, persona |-> p]
        ELSE IF lang.raised
        THEN [lines |-> first \o act.lines \o lang.lines, raised |-> TRUE,
              persona |-> [p EXCEPT !.language_style = lang.style]]
        ELSE [lines |-> first \o act.lines \o lang.lines \o SubredditLines(p),
              raised |-> FALSE,
              persona |-> [p EXCEPT !.language_style = lang.style]]

\* filename = f"reddit_persona_{username}.txt"
Filename(name) ==
    <<"r", "e", "d", "d", "i", "t", "_", "p", "e", "r", "s", "o", "n", "a", "_">>
    \o name \o <<".", "t", "x", "t">>

(***************************************************************************)
(* What the operator types and what the Reddit API returns.                *)
(***************************************************************************)
UserSep == <<"/", "u", "s", "e", "r", "/">>

ProfileUrls ==
    { <<>>,
      <<"h", "t", "t", "p", "s", ":", "/", "/", "w", "w", "w", ".", "r", "e", "d",
        "d", "i", "t", ".", "c", "o", "m", "/", "u", "s", "e", "r", "/", "/">>,
      <<"r", "e", "d", "d", "i", "t", ".", "c", "o", "m", "/", "u", "s", "e", "r",
        "/", "b", "o", "b", "/", " ">> }

\* username = profile_url.strip().split('/user/')[-1].strip('/')
ParseUsername(profile_url) ==
    Strip(SplitLast(Strip(profile_url, Whitespace), UserSep), {"/"})

Accounts ==
    { [created_utc |-> 100 * 24 + 13, comment_karma |-> 10, link_karma |-> 5,
       is_mod |-> FALSE, is_gold |-> TRUE] }

NowSamples == {1500 * 24 + 10}

CommentSamples ==
    { [body |-> <<"I", " ", "t", "h", "i", "n", "k", " ", "J", "a", "v", "a", "!">>,
       subreddit |-> "python", created_utc |-> 1000 * 24 + 9, score |-> 3],
      [body |-> <<"T", "h", "a", "n", "k", "s", ",", " ", "m", "y", " ", "f", "i",
                  "l", "m", " ", "g", "a", "m", "e", "?">>,
       subreddit |-> "gaming", created_utc |-> 1001 * 24 + 14, score |-> 1],
      [body |-> <<"h", "e", "l", "l", "o", " ", "w", "o", "r", "l", "d">>,
       subreddit |-> "askreddit", created_utc |-> 1002 * 24 + 20, score |-> 0] }

PostSamples ==
    { [title |-> <<"N", "e", "e", "d", " ", "a", "d", "v", "i", "c", "e", "?">>,
       selftext |-> <<>>,
       subreddit |-> "laptops", created_utc |-> 1003 * 24 + 7, score |-> 2,
       is_self |-> TRUE],
      [title |-> <<"D", "e", "b", "a", "t", "e", "!">>,
       selftext |-> <<"I", " ", "t", "h", "i", "n", "k", " ", "m", "y", " ", "t",
                      "h", "a", "n", "k", "s">>,
       subreddit |-> "politics", created_utc |-> 1004 * 24 + 18, score |-> 5,
       is_self |-> TRUE],
      [title |-> <<"h", "i">>,
       selftext |-> <<"w", "h", "y", "?", " ", "h", "e", "l", "p">>,
       subreddit |-> "casual", created_utc |-> 1005 * 24 + 23, score |-> 1,
       is_self |-> TRUE] }

\* f"https://reddit.com{item.permalink}"
Url(permalink) == <<"https://reddit.com", permalink>>

\* the dict appended to user_info['comments']
CommentRecord(comment) ==
    [body |-> comment.body,
     subreddit |-> comment.subreddit,
     created_utc |-> Strftime(FromTimestamp(comment.created_utc)),
     score |-> comment.score,
     permalink |-> Url(comment.permalink)]

\* the dict appended to user_info['posts']
PostRecord(submission) ==
    [title |-> submission.title,
     selftext |-> submission.selftext,
     subreddit |-> submission.subreddit,
     created_utc |-> Strftime(FromTimestamp(submission.created_utc)),
     score |-> submission.score,
     permalink |-> Url(submission.permalink),
     is_self |-> submission.is_self]

\* the dict extract_user_info starts from
AccountRecord(name, user) ==
    [username |-> name,
     created_utc |-> Strftime(FromTimestamp(user.created_utc)),
     comment_karma |-> user.comment_karma,
     link_karma |-> user.link_karma,
     is_mod |-> user.is_mod,
     is_gold |-> user.is_gold,
     comments |-> <<>>,
     posts |-> <<>>]

\* variant: the except branch hands back what was fetched so far
ExceptReturnPartial(partial) == partial

\* except Exception: print(...); return None
ExceptReturn(partial) == None

(***************************************************************************)
(* main: one run of the program.                                           *)
(***************************************************************************)
Init ==
    /\ pc = "main"
    /\ username = <<>>
    /\ api_comments = <<>>
    /\ api_posts = <<>>
    /\ fetching = None
    /\ user_info = None
    /\ persona = None
    /\ i = 0
    /\ hour = -1
    /\ file = None
    /\ stdout = <<>>
    /\ outcome = "running"

\* main up to the call of extract_user_info
MainInput ==
    /\ pc = "main"
    /\ \E profile_url \in ProfileUrls :
         /\ username' = ParseUsername(profile_url)
         /\ IF username' = <<>>
            THEN /\ stdout' = <<"banner", "invalid_url">>
                 /\ outcome' = "invalid_url"
                 /\ pc' = "done"
            ELSE /\ stdout' = <<"banner", "fetching">>
                 /\ outcome' = outcome
                 /\ pc' = "extract"
    /\ UNCHANGED <<api_comments, api_posts, fetching, user_info, persona, i,
                   hour, file>>

\* extract_user_info: the account attributes are read
ExtractAccount ==
    /\ pc = "extract"
    /\ \E user \in Accounts : fetching' = AccountRecord(username, user)
    /\ pc' = "fetch_comments"
    /\ UNCHANGED <<username, api_comments, api_posts, user_info, persona, i,
                   hour, file, stdout, outcome>>

\* one iteration of `for comment in user.comments.new(limit=100)`
FetchComment ==
    /\ pc = "fetch_comments"
    /\ Len(fetching.comments) < CommentLimit
    /\ Len(fetching.comments) < MaxComments
    /\ \E sample \in CommentSamples :
         LET comment == [body |-> sample.body, subreddit |-> sample.subreddit,
                         created_utc |-> sample.created_utc,
                         score |-> sample.score,
                         permalink |-> Len(api_comments) + Len(api_posts) + 1]
         IN  /\ api_comments' = Append(api_comments, comment)
             /\ fetching' = [fetching EXCEPT !.comments = Append(@, CommentRecord(comment))]
    /\ UNCHANGED <<pc, username, api_posts, user_info, persona, i, hour, file,
                   stdout, outcome>>

\* the comment listing is exhausted
CommentsExhausted ==
    /\ pc = "fetch_comments"
    /\ pc' = "fetch_posts"
    /\ UNCHANGED <<username, api_comments, api_posts, fetching, user_info,
                   persona, i, hour, file, stdout, outcome>>

\* one iteration of `for submission in user.submissions.new(limit=50)`
FetchPost ==
    /\ pc = "fetch_posts"
    /\ Len(fetching.posts) < PostLimit
    /\ Len(fetching.posts) < MaxPosts
    /\ \E sample \in PostSamples :
         LET submission == [title |-> sample.title, selftext |-> sample.selftext,
                            subreddit |-> sample.subreddit,
                            created_utc |-> sample.created_utc,
                            score |-> sample.score, is_self |-> sample.is_self,
                            permalink |-> Len(api_comments) + Len(api_posts) + 1]
         IN  /\ api_posts' = Append(api_posts, submission)
             /\ fetching' = [fetching EXCEPT !.posts = Append(@, PostRecord(submission))]
    /\ UNCHANGED <<pc, username, api_comments, user_info, persona, i, hour,
                   file, stdout, outcome>>

\* the submission listing is exhausted: return user_info
PostsExhausted ==
    /\ pc = "fetch_posts"
    /\ user_info' = fetching
    /\ pc' = "check"
    /\ UNCHANGED <<username, api_comments, api_posts, fetching, persona, i,
                   hour, file, stdout, outcome>>

\* the API raises inside the try block: at the account attributes, at a
\* comment or at a submission
FetchRaise ==
    /\ pc \in {"extract", "fetch_comments", "fetch_posts"}
    /\ stdout' = Append(stdout, "error_fetching")
    /\ user_info' = ExceptReturn(fetching)
    /\ pc' = "check"
    /\ UNCHANGED <<username, api_comments, api_posts, fetching, persona, i,
                   hour, file, outcome>>

\* main: `if not user_info: ... return`
MainCheck ==
    /\ pc = "check"
    /\ IF IsNone(user_info)
       THEN /\ stdout' = Append(stdout, "failed_to_fetch")
            /\ outcome' = "fetch_failed"
            /\ pc' = "done"
       ELSE /\ stdout' = Append(stdout, "analyzing")
            /\ outcome' = outcome
            /\ pc' = "analyze"
    /\ UNCHANGED <<username, api_comments, api_posts, fetching, user_info,
                   persona, i, hour, file>>

\* analyze_persona: the persona dict is built
AnalyzeBegin ==
    /\ pc = "analyze"
    /\ \E now \in NowSamples : persona' = NewPersona(user_info, now)
    /\ i' = 1
    /\ pc' = "analyze_items"
    /\ UNCHANGED <<username, api_comments, api_posts, fetching, user_info,
                   hour, file, stdout, outcome>>

\* one iteration of `for comment in user_info['comments']`
AnalyzeCommentStep ==
    /\ pc = "analyze_items"
    /\ i <= Len(user_info.comments)
    /\ LET comment == user_info.comments[i]
       IN  /\ persona' = AnalyzeActivityTime(comment.created_utc,
                            CountSubreddit(comment, AnalyzeComment(comment, persona)))
           /\ hour' = ParsedHour(comment.created_utc)
    /\ i' = i + 1
    /\ UNCHANGED <<pc, username, api_comments, api_posts, fetching, user_info,
                   file, stdout, outcome>>

\* one iteration of `for post in user_info['posts']`
AnalyzePostStep ==
    /\ pc = "analyze_items"
    /\ i > Len(user_info.comments)
    /\ i <= Len(user_info.comments) + Len(user_info.posts)
    /\ LET post == user_info.posts[i - Len(user_info.comments)]
       IN  /\ persona' = AnalyzeActivityTime(post.created_utc,
                            CountSubreddit(post, AnalyzePost(post, persona)))
           /\ hour' = ParsedHour(post.created_utc)
    /\ i' = i + 1
    /\ UNCHANGED <<pc, username, api_comments, api_posts, fetching, user_info,
                   file, stdout, outcome>>

\* analyze_persona, "Process findings", and its return
ProcessFindings ==
    /\ pc = "analyze_items"
    /\ i > Len(user_info.comments) + Len(user_info.posts)
    /\ persona' = [persona EXCEPT
                      !.top_interests = TopInterests(persona.interests),
                      !.top_subreddits = TopSubreddits(persona.frequent_subreddits)]
    /\ pc' = "generate"
    /\ UNCHANGED <<username, api_comments, api_posts, fetching, user_info, i,
                   hour, file, stdout, outcome>>

\* generate_persona_file and the end of main; a ZeroDivisionError leaves the
\* file as written so far and ends the process with a traceback
GenerateFile ==
    /\ pc = "generate"
    /\ LET result == GeneratePersonaFile(persona)
       IN  /\ file' = [name |-> Filename(username), lines |-> result.lines]
           /\ persona' = result.persona
           /\ IF result.raised
              THEN /\ outcome' = "crashed"
                   /\ stdout' = stdout
              ELSE /\ outcome' = "ok"
                   /\ stdout' = Append(stdout, "success")
    /\ pc' = "done"
    /\ UNCHANGED <<username, api_comments, api_posts, fetching, user_info, i,
                   hour>>

Next ==
    \/ MainInput
    \/ ExtractAccount
    \/ FetchComment
    \/ CommentsExhausted
    \/ FetchPost
    \/ PostsExhausted
    \/ FetchRaise
    \/ MainCheck
    \/ AnalyzeBegin
    \/ AnalyzeCommentStep
    \/ AnalyzePostStep
    \/ ProcessFindings
    \/ GenerateFile

Spec == Init /\ [][Next]_vars

(***************************************************************************)
(* _analyze_activity_time on its own: the if/elif chain applied to every   *)
(* hour of the day.                                                        *)
(***************************************************************************)
InitBucket ==
    /\ pc = "bucket"
    /\ username = <<>>
    /\ api_comments = <<>>
    /\ api_posts = <<>>
    /\ fetching = None
    /\ user_info = None
    /\ persona = NewPersona(AccountRecord(<<"b", "o", "b">>,
                                [created_utc |-> 100 * 24 + 13, comment_karma |-> 10,
                                 link_karma |-> 5, is_mod |-> FALSE, is_gold |-> TRUE]),
                            1500 * 24 + 10)
    /\ i = 0
    /\ hour = -1
    /\ file = None
    /\ stdout = <<>>
    /\ outcome = "running"

BucketCall ==
    /\ pc = "bucket"
    /\ i < MaxCalls
    /\ \E h \in 0..23 :
         /\ hour' = h
         /\ persona' = CountActivity(h, persona)
    /\ i' = i + 1
    /\ UNCHANGED <<pc, username, api_comments, api_posts, fetching, user_info,
                   file, stdout, outcome>>

NextBucket == BucketCall

SpecBucket == InitBucket /\ [][NextBucket]_vars

(***************************************************************************)
(* Vocabulary of the properties.                                           *)
(***************************************************************************)
\* analyze_persona has been entered
Analyzing == ~IsNone(persona) /\ pc \in {"analyze_items", "generate", "done"}

\* analyze_persona has returned
Analyzed == ~IsNone(persona) /\ pc \in {"generate", "done"}

\* generate_persona_file has ended, normally or not
Generated == ~IsNone(persona) /\ pc = "done"

\* the items in fetch order: all comments, then all posts
Items == user_info.comments \o user_info.posts

\* the number of items the two loops of analyze_persona have processed
Processed == IF pc = "analyze_items" THEN i - 1 ELSE Len(Items)

ProcessedComments == Min(Processed, Len(user_info.comments))

InList(list, x) == \E n \in 1..Len(list) : list[n] = x

Printed(message) == \E n \in 1..Len(stdout) : stdout[n] = message

HasLine(kinds) ==
    /\ ~IsNone(file)
    /\ \E n \in 1..Len(file.lines) : file.lines[n].kind \in kinds

Count(S) == Cardinality(S)

(***************************************************************************)
(* C1: generate_persona_file never raises on the average comment length:   *)
(* when no trait category and no interest category was hit, the 'Average   *)
(* comment length' line is skipped, also when the word count is positive.  *)
(***************************************************************************)
C1_AverageLengthGuarded ==
    (Generated /\ Len(persona.personality_traits) + Len(persona.interests) = 0)
        => (outcome = "ok" /\ ~HasLine({"avg_length"}))

(***************************************************************************)
(* C2: with zero comments and zero posts, analyze_persona and              *)
(* generate_persona_file complete without raising; total activity is zero, *)
(* no activity-pattern line and no language-style line is written, and the *)
(* interests, traits and subreddit sections are empty.                     *)
(***************************************************************************)
C2_EmptyUserRenders ==
    (Generated /\ user_info.comments = <<>> /\ user_info.posts = <<>>)
        => /\ outcome = "ok"
           /\ Printed("success")
           /\ SumValues(persona.activity_patterns) = 0
           /\ ~HasLine({"activity", "avg_length", "exclamation", "self_reference",
                        "interest", "trait", "citation", "subreddit"})
           /\ file.lines[Len(file.lines)].kind = "end"
           /\ Count({n \in 1..Len(file.lines) : file.lines[n].kind = "header"}) = 6

C2_Witness ==
    /\ Generated
    /\ user_info.comments = <<>>
    /\ user_info.posts = <<>>
    /\ ~IsNone(file)
    /\ outcome = "ok"

(***************************************************************************)
(* C3: once extract_user_info has failed (at the account, at a comment or  *)
(* at a post), analyze_persona and generate_persona_file are never called: *)
(* main sees no user_info, no persona is built and no file is written.     *)
(***************************************************************************)
C3_FetchFailureWritesNothing ==
    Printed("error_fetching")
        => /\ IsNone(user_info)
           /\ IsNone(persona)
           /\ IsNone(file)
           /\ pc \in {"check", "done"}
           /\ (pc = "done" => outcome = "fetch_failed" /\ Printed("failed_to_fetch"))
           /\ ~Printed("analyzing")
           /\ ~Printed("success")

C3_Witness ==
    /\ pc = "done"
    /\ Printed("error_fetching")
    /\ Len(api_comments) >= 2
    /\ Len(api_posts) >= 1
    /\ Len(fetching.posts) >= 1

(***************************************************************************)
(* C4: after analyze_persona, top_interests is the first 5 interest        *)
(* categories by citation count descending, equal counts in the order of   *)
(* first encounter; top_subreddits is the same ranking of the subreddit    *)
(* counts, equal counts in the order in which the subreddits were first    *)
(* seen among the items.                                                   *)
(***************************************************************************)
\* the position of an item's first occurrence of subreddit name
FirstSeen(name) ==
    CHOOSE n \in 1..Len(Items) :
        /\ Items[n].subreddit = name
        /\ \A m \in 1..(n - 1) : Items[m].subreddit # name

\* entry a ranks before entry b: more citations, or as many and met earlier
InterestBefore(a, b) ==
    \/ Len(a.v) > Len(b.v)
    \/ /\ Len(a.v) = Len(b.v)
       /\ Index(persona.interests, a.k) < Index(persona.interests, b.k)

SubredditBefore(a, b) ==
    \/ a.v > b.v
    \/ a.v = b.v /\ FirstSeen(a.k) < FirstSeen(b.k)

C4_TopFiveStable ==
    Analyzed =>
        LET ti == persona.top_interests
            ts == persona.top_subreddits
            int == persona.interests
            sub == persona.frequent_subreddits
        IN  /\ Len(ti) = Min(5, Len(int))
            /\ \A n \in 1..Len(ti) : InList(int, ti[n])
            /\ \A a, b \in 1..Len(ti) : a < b => InterestBefore(ti[a], ti[b])
            /\ \A n \in 1..Len(int) :
                 InList(ti, int[n])
                   \/ \A a \in 1..Len(ti) : InterestBefore(ti[a], int[n])
            /\ Len(ts) = Min(5, Len(sub))
            /\ \A n \in 1..Len(ts) : InList(sub, ts[n])
            /\ \A a, b \in 1..Len(ts) : a < b => SubredditBefore(ts[a], ts[b])
            /\ \A n \in 1..Len(sub) :
                 InList(ts, sub[n])
                   \/ \A a \in 1..Len(ts) : SubredditBefore(ts[a], sub[n])

\* the interest met fourth outranks the three met before it, which tie and
\* keep their order; six subreddits tie and the one seen last is cut off
C4_Witness ==
    /\ Analyzed
    /\ Len(persona.frequent_subreddits) > 5
    /\ Len(persona.top_subreddits) = 5
    /\ persona.top_subreddits[4].v = persona.top_subreddits[5].v
    /\ Len(persona.top_interests) = 5
    /\ persona.top_interests[1].k = persona.interests[4].k
    /\ Len(persona.top_interests[1].v) > Len(persona.top_interests[2].v)
    /\ Len(persona.top_interests[2].v) = Len(persona.top_interests[3].v)
    /\ persona.top_interests[2].k = persona.interests[1].k

(***************************************************************************)
(* C5 as stated: for every item, comment or post, the trait rules are      *)
(* applied to its lowercased text: the permalink is added to 'opinionated' *)
(* if the text contains "i think" or "in my opinion", to 'polite' if it    *)
(* contains "thanks", "thank you" or "appreciate", and to 'inquisitive' if *)
(* the comment body (for a post, the title) contains "?".                  *)
(***************************************************************************)
Cited(dict, category, item) == InList(Get(dict, category, <<>>), item.permalink)

C5_TraitRulesOnEveryItem ==
    Analyzed =>
        /\ \A n \in 1..Len(user_info.comments) :
             LET c == user_info.comments[n]
             IN  /\ AnyIn(CommentText(c), OpinionatedWords)
                      => Cited(persona.personality_traits, "opinionated", c)
                 /\ AnyIn(CommentText(c), PoliteWords)
                      => Cited(persona.personality_traits, "polite", c)
                 /\ Contains(c.body, QuestionMark)
                      => Cited(persona.personality_traits, "inquisitive", c)
        /\ \A n \in 1..Len(user_info.posts) :
             LET q == user_info.posts[n]
             IN  /\ AnyIn(PostText(q), OpinionatedWords)
                      => Cited(persona.personality_traits, "opinionated", q)
                 /\ AnyIn(PostText(q), PoliteWords)
                      => Cited(persona.personality_traits, "polite", q)
                 /\ Contains(q.title, QuestionMark)
                      => Cited(persona.personality_traits, "inquisitive", q)

(***************************************************************************)
(* C5 as amended: the three trait rules are applied to every comment's     *)
(* lowercased body; for a post only the 'inquisitive' rule is applied, to  *)
(* the title, and a post is never cited under 'opinionated' or 'polite'.   *)
(***************************************************************************)
C5_TraitRulesCommentsOnly ==
    Analyzed =>
        /\ \A n \in 1..Len(user_info.comments) :
             LET c == user_info.comments[n]
             IN  /\ AnyIn(CommentText(c), OpinionatedWords)
                      <=> Cited(persona.personality_traits, "opinionated", c)
                 /\ AnyIn(CommentText(c), PoliteWords)
                      <=> Cited(persona.personality_traits, "polite", c)
                 /\ Contains(c.body, QuestionMark)
                      <=> Cited(persona.personality_traits, "inquisitive", c)
        /\ \A n \in 1..Len(user_info.posts) :
             LET q == user_info.posts[n]
             IN  /\ ~Cited(persona.personality_traits, "opinionated", q)
                 /\ ~Cited(persona.personality_traits, "polite", q)
                 /\ Contains(q.title, QuestionMark)
                      <=> Cited(persona.personality_traits, "inquisitive", q)

\* a post whose text has "i think" and "thanks", a post with "?" outside its
\* title, a post and a comment cited as inquisitive, a comment cited as
\* opinionated and one as polite
C5_Witness ==
    /\ Analyzed
    /\ \E n \in 1..Len(user_info.posts) :
         /\ AnyIn(PostText(user_info.posts[n]), OpinionatedWords)
         /\ AnyIn(PostText(user_info.posts[n]), PoliteWords)
    /\ \E n \in 1..Len(user_info.posts) :
         /\ Contains(PostText(user_info.posts[n]), QuestionMark)
         /\ ~Contains(user_info.posts[n].title, QuestionMark)
    /\ \E n \in 1..Len(user_info.posts) :
         Cited(persona.personality_traits, "inquisitive", user_info.posts[n])
    /\ \E n \in 1..Len(user_info.comments) :
         Cited(persona.personality_traits, "inquisitive", user_info.comments[n])
    /\ \E n \in 1..Len(user_info.comments) :
         Cited(persona.personality_traits, "opinionated", user_info.comments[n])
    /\ \E n \in 1..Len(user_info.comments) :
         Cited(persona.personality_traits, "polite", user_info.comments[n])

(***************************************************************************)
(* C6: each call of _analyze_activity_time adds one to exactly one bucket, *)
(* chosen by the hour h: 5..11 morning, 12..16 afternoon, 17..21 evening,  *)
(* any other hour night; in particular 5 is morning, 4 night, 12           *)
(* afternoon, 17 evening, 22 night and 0 night.                            *)
(***************************************************************************)
BucketNames == {"morning", "afternoon", "evening", "night"}

ExpectedBucket(h) ==
    CASE h \in 5..11 -> "morning"
      [] h \in 12..16 -> "afternoon"
      [] h \in 17..21 -> "evening"
      [] h \in (0..4) \cup {22, 23} -> "night"

BoundaryHours ==
    /\ ExpectedBucket(5) = "morning"
    /\ ExpectedBucket(4) = "night"
    /\ ExpectedBucket(12) = "afternoon"
    /\ ExpectedBucket(17) = "evening"
    /\ ExpectedBucket(22) = "night"
    /\ ExpectedBucket(0) = "night"

C6_OneBucketPerHour ==
    [][ /\ BoundaryHours
        /\ hour' \in 0..23
        /\ Keys(persona'.activity_patterns) \subseteq BucketNames
        /\ \A b \in BucketNames :
             Get(persona'.activity_patterns, b, 0)
               = Get(persona.activity_patterns, b, 0)
                 + (IF b = ExpectedBucket(hour') THEN 1 ELSE 0) ]_vars

\* the hours 4, 5 and 12 have been bucketed
C6_Witness ==
    /\ pc = "bucket"
    /\ hour = 12
    /\ Get(persona.activity_patterns, "night", 0) = 1
    /\ Get(persona.activity_patterns, "morning", 0) = 1
    /\ Get(persona.activity_patterns, "afternoon", 0) = 1

(***************************************************************************)
(* C7 as stated: after analyze_persona the language-style totals cover the *)
(* comments and the posts: comment_length is the sum of the word counts of *)
(* every item's text, exclamation_use the number of items whose text       *)
(* contains "!", self_reference the number of items whose text has a       *)
(* whole-word i'm, i am, me or my.                                         *)
(***************************************************************************)
\* the lowercased texts of the first n comments
CommentTexts(n) == [m \in 1..n |-> CommentText(user_info.comments[m])]

PostTexts == [m \in 1..Len(user_info.posts) |-> PostText(user_info.posts[m])]

RECURSIVE TotalWords(_)
TotalWords(texts) ==
    IF texts = <<>> THEN 0 ELSE WordCount(Head(texts)) + TotalWords(Tail(texts))

WithExclamation(texts) ==
    Count({n \in 1..Len(texts) : Contains(texts[n], ExclamationMark)})

WithSelfReference(texts) ==
    Count({n \in 1..Len(texts) : SearchWholeWord(texts[n], SelfReferenceWords)})

StyleIs(texts) ==
    /\ Get(persona.language_style, "comment_length", 0) = TotalWords(texts)
    /\ Get(persona.language_style, "exclamation_use", 0) = WithExclamation(texts)
    /\ Get(persona.language_style, "self_reference", 0) = WithSelfReference(texts)

C7_StyleCoversAllItems ==
    Analyzed => StyleIs(CommentTexts(Len(user_info.comments)) \o PostTexts)

(***************************************************************************)
(* C7 as amended: the language-style totals cover the comments only, at    *)
(* every point of analyze_persona and afterwards: comment_length is the    *)
(* sum of the word counts of the comment bodies processed so far,          *)
(* exclamation_use the number of those containing "!", self_reference the  *)
(* number of those with a whole-word i'm, i am, me or my; posts add        *)
(* nothing.                                                                *)
(***************************************************************************)
C7_StyleCoversComments ==
    Analyzing => StyleIs(CommentTexts(ProcessedComments))

\* posts with words, "!" and "my" have been analyzed after comments with
\* words, "!" and "my"
C7_Witness ==
    /\ Analyzed
    /\ TotalWords(PostTexts) > 0
    /\ WithExclamation(PostTexts) > 0
    /\ WithSelfReference(PostTexts) > 0
    /\ Get(persona.language_style, "comment_length", 0) > 3
    /\ Get(persona.language_style, "exclamation_use", 0) > 0
    /\ Get(persona.language_style, "self_reference", 0) > 0
    /\ Get(persona.language_style, "self_reference", 0) < Len(user_info.comments)

(***************************************************************************)
(* C8: the fetched timestamps are dates, so the hour seen by               *)
(* _analyze_activity_time is always 0: 'night' counts every processed item *)
(* (all comments and posts once analyze_persona has returned) and          *)
(* morning, afternoon and evening are never incremented, whatever the      *)
(* items' real hours were.                                                 *)
(***************************************************************************)
C8_AlwaysNight ==
    Analyzing =>
        /\ hour \in {-1, 0}
        /\ (Processed > 0 => hour = 0)
        /\ Keys(persona.activity_patterns) \subseteq {"night"}
        /\ Get(persona.activity_patterns, "night", 0) = Processed
        /\ (Analyzed => Get(persona.activity_patterns, "night", 0)
                          = Len(user_info.comments) + Len(user_info.posts))

\* the API gave a morning, an afternoon and an evening item
C8_Witness ==
    /\ Analyzed
    /\ \E n \in 1..Len(api_comments) :
         Bucket(FromTimestamp(api_comments[n].created_utc).hour) = "morning"
    /\ \E n \in 1..Len(api_comments) :
         Bucket(FromTimestamp(api_comments[n].created_utc).hour) = "afternoon"
    /\ \E n \in 1..Len(api_posts) :
         Bucket(FromTimestamp(api_posts[n].created_utc).hour) = "evening"
    /\ Get(persona.activity_patterns, "night", 0) >= 3

(***************************************************************************)
(* C9: at every point of analyze_persona and in the final persona, every   *)
(* interest and trait citation list is a subsequence of the permalinks of  *)
(* the processed items in fetch order (comments, then posts): no permalink *)
(* twice in one list, none before an earlier one; the ranking keeps every  *)
(* list as it is.                                                          *)
(***************************************************************************)
\* the position in fetch order of the item with this permalink
Position(url) == CHOOSE n \in 1..Len(Items) : Items[n].permalink = url

OrderedCitations(list) ==
    /\ \A n \in 1..Len(list) :
         \E m \in 1..Processed : Items[m].permalink = list[n]
    /\ \A a, b \in 1..Len(list) : a < b => Position(list[a]) < Position(list[b])

C9_CitationsInFetchOrder ==
    Analyzing =>
        /\ \A a, b \in 1..Len(Items) :
             a # b => Items[a].permalink # Items[b].permalink
        /\ \A n \in 1..Len(persona.interests) :
             OrderedCitations(persona.interests[n].v)
        /\ \A n \in 1..Len(persona.personality_traits) :
             OrderedCitations(persona.personality_traits[n].v)
        /\ \A n \in 1..Len(persona.top_interests) :
             /\ HasKey(persona.interests, persona.top_interests[n].k)
             /\ persona.top_interests[n].v
                  = Get(persona.interests, persona.top_interests[n].k, <<>>)

\* 'inquisitive' cites two comments and then a post; a ranked interest has
\* two citations
C9_Witness ==
    /\ Analyzed
    /\ LET list == Get(persona.personality_traits, "inquisitive", <<>>)
       IN  /\ Len(list) >= 3
           /\ Position(list[1]) <= Len(user_info.comments)
           /\ Position(list[Len(list)]) > Len(user_info.comments)
    /\ Len(persona.top_interests) >= 2
    /\ Len(persona.top_interests[1].v) >= 2

(***************************************************************************)
(* C10: the subreddit count goes up once per item, whatever the item       *)
(* matched: frequent_subreddits[s] is the number of processed items whose  *)
(* subreddit is s, and the counts sum to the number of processed items     *)
(* (comments plus posts once analyze_persona has returned).                *)
(***************************************************************************)
C10_SubredditCountPerItem ==
    Analyzing =>
        /\ Keys(persona.frequent_subreddits)
             = {Items[n].subreddit : n \in 1..Processed}
        /\ \A n \in 1..Len(persona.frequent_subreddits) :
             persona.frequent_subreddits[n].v
               = Count({m \in 1..Processed :
                          Items[m].subreddit = persona.frequent_subreddits[n].k})
        /\ \A a, b \in 1..Len(persona.frequent_subreddits) :
             a # b => persona.frequent_subreddits[a].k # persona.frequent_subreddits[b].k
        /\ SumValues(persona.frequent_subreddits) = Processed
        /\ (Analyzed => SumValues(persona.frequent_subreddits)
                          = Len(user_info.comments) + Len(user_info.posts))

\* an item that matched nothing and an item that matched four categories,
\* in subreddits counted once and twice
C10_Witness ==
    /\ Analyzed
    /\ Get(persona.frequent_subreddits, "askreddit", 0) = 1
    /\ Get(persona.frequent_subreddits, "gaming", 0) = 2
    /\ Len(Get(persona.interests, "movies", <<>>)) = 2
    /\ Len(persona.interests) + Len(persona.personality_traits) >= 4
    /\ Len(user_info.posts) >= 1

====
